---- MODULE Spec2Model ----
(***************************************************************************)
(* A model of src/src/App.js: the App component of the expense tracker.    *)
(* The state is the three useState cells (expenses, formData, editingId),  *)
(* the localStorage item 'expenses', the wall clock read by Date.now(),    *)
(* and the position of React's mount / render / effect cycle.              *)
(***************************************************************************)
EXTENDS Integers, Sequences, FiniteSets, TLC

\* ------------------------------------------------------------------ bounds

\* The largest collection an add-mode submit is explored to.
MaxLen == 2

\* The largest value the wall clock is explored to.
MaxTime == 2

\* The most localStorage.setItem calls that throw in one session.
MaxFailedWrites == 1

\* ------------------------------------------------------------ JS values

\* Every JS value carries its type in ty: null, a number, an array, or an
\* expense object {id, amount, date, note}.
JSNull == [ty |-> "null"]

JSNumber(n) == [ty |-> "number", n |-> n]

JSArray(items) == [ty |-> "array", items |-> items]

Expense(id, amount, date, note) ==
  [ty |-> "object", id |-> id, amount |-> amount, date |-> date, note |-> note]

IsArray(v) == v.ty = "array"

IsExpense(v) == v.ty = "object"

\* The empty array of useState([]).
EmptyArray == JSArray(<<>>)

\* const INITIAL_FORM_STATE = { amount: '', date: '', note: '' }
INITIAL_FORM_STATE == [amount |-> "", date |-> "", note |-> ""]

\* The null of useState(null) for editingId. Timestamps are positive, so 0
\* stands for null beside them.
null == 0

\* --------------------------------------------------------------- JSON text
\* A JSON text is the sequence of its tokens: punctuation, string literals,
\* number literals and the literal null.

Punct(c) == [k |-> "punct", s |-> c]

StrTok(s) == [k |-> "string", s |-> s]

NumTok(n) == [k |-> "number", n |-> n]

NullTok == [k |-> "literal", s |-> "null"]

\* JSON.stringify of one expense object: its own properties in insertion
\* order (id first, then formData's amount, date, note).
StringifyExpense(e) ==
  << Punct("{"),
     StrTok("id"), Punct(":"), NumTok(e.id), Punct(","),
     StrTok("amount"), Punct(":"), StrTok(e.amount), Punct(","),
     StrTok("date"), Punct(":"), StrTok(e.date), Punct(","),
     StrTok("note"), Punct(":"), StrTok(e.note),
     Punct("}") >>

StringifyElement(v) ==
  CASE v.ty = "null" -> << NullTok >>
    [] v.ty = "number" -> << NumTok(v.n) >>
    [] v.ty = "object" -> StringifyExpense(v)

\* The elements of an array, separated by commas.
RECURSIVE StringifyItems(_)
StringifyItems(items) ==
  IF items = <<>> THEN <<>>
  ELSE IF Len(items) = 1 THEN StringifyElement(Head(items))
  ELSE StringifyElement(Head(items)) \o << Punct(",") >> \o StringifyItems(Tail(items))

\* JSON.stringify(value)
Stringify(v) ==
  IF v.ty = "array"
  THEN << Punct("[") >> \o StringifyItems(v.items) \o << Punct("]") >>
  ELSE StringifyElement(v)

\* A JS string value, as JSON.parse returns for a string literal.
JSString(s) == [ty |-> "string", s |-> s]

\* The value of an object's property: numbers and strings are kept as the
\* model's integers and strings, every other value as it is.
PropertyValue(v) ==
  CASE v.ty = "number" -> v.n
    [] v.ty = "string" -> v.s
    [] OTHER -> v

ParseFail == [ok |-> FALSE, v |-> JSNull, rest |-> <<>>]

ParseOk(v, rest) == [ok |-> TRUE, v |-> v, rest |-> rest]

\* JSON.parse's grammar, by recursive descent over the tokens: a value; the
\* elements of an array after "["; the members of an object after "{".
RECURSIVE ParseValue(_), ParseElements(_, _), ParseMembers(_, _)
ParseValue(toks) ==
  IF toks = <<>> THEN ParseFail
  ELSE LET t == Head(toks)
           rest == Tail(toks)
       IN CASE t.k = "literal" -> ParseOk(JSNull, rest)
            [] t.k = "number" -> ParseOk(JSNumber(t.n), rest)
            [] t.k = "string" -> ParseOk(JSString(t.s), rest)
            [] t = Punct("[") ->
                 IF rest # <<>> /\ Head(rest) = Punct("]")
                 THEN ParseOk(JSArray(<<>>), Tail(rest))
                 ELSE ParseElements(rest, <<>>)
            [] t = Punct("{") ->
                 IF rest # <<>> /\ Head(rest) = Punct("}")
                 THEN ParseOk([ty |-> "object"], Tail(rest))
                 ELSE ParseMembers(rest, [ty |-> "object"])
            [] OTHER -> ParseFail

ParseElements(toks, acc) ==
  LET e == ParseValue(toks)
  IN IF ~e.ok \/ e.rest = <<>> THEN ParseFail
     ELSE IF Head(e.rest) = Punct(",")
          THEN ParseElements(Tail(e.rest), Append(acc, e.v))
     ELSE IF Head(e.rest) = Punct("]")
          THEN ParseOk(JSArray(Append(acc, e.v)), Tail(e.rest))
     ELSE ParseFail

ParseMembers(toks, obj) ==
  IF Len(toks) < 2 \/ toks[1].k # "string" \/ toks[2] # Punct(":") THEN ParseFail
  ELSE LET m == ParseValue(SubSeq(toks, 3, Len(toks)))
           next == (toks[1].s :> PropertyValue(m.v)) @@ obj
       IN IF ~m.ok \/ m.rest = <<>> THEN ParseFail
          ELSE IF Head(m.rest) = Punct(",") THEN ParseMembers(Tail(m.rest), next)
          ELSE IF Head(m.rest) = Punct("}") THEN ParseOk(next, Tail(m.rest))
          ELSE ParseFail

\* JSON.parse(text): the value of the whole text, or a SyntaxError.
JSONParse(text) ==
  LET r == ParseValue(text)
  IN IF r.ok /\ r.rest = <<>> THEN [ok |-> TRUE, v |-> r.v]
     ELSE [ok |-> FALSE, v |-> JSNull]

\* ------------------------------------------------------------------ state

VARIABLES
  expenses,   \* the state cell of useState([]): what setExpenses last set
  formData,   \* the state cell of useState(INITIAL_FORM_STATE)
  editingId,  \* the state cell of useState(null)
  rendered,   \* the expenses of the last committed render: what the
              \* closures of its handlers and effects read
  scheduled,  \* a setExpenses call awaits its render
  storage,    \* the localStorage item 'expenses'
  now,        \* the last reading of the wall clock
  pc,         \* "load", "save", "render", "idle" or "crashed"
  lastWrite,  \* how the last localStorage.setItem ended
  failed,     \* how many localStorage.setItem calls have thrown
  last        \* the last effect or handler that ran, how it ended, and
              \* the id a confirmed delete was called with

vars == << expenses, formData, editingId, rendered, scheduled, storage, now,
           pc, lastWrite, failed, last >>

\* What the form's three inputs can hold.
Amounts == {"", "5", "7"}

Dates == {"", "d"}

Notes == {"", "n"}

FieldValues(name) ==
  CASE name = "amount" -> Amounts
    [] name = "date" -> Dates
    [] name = "note" -> Notes

\* localStorage.getItem('expenses'): null when the item is absent.
Absent == [present |-> FALSE, text |-> <<>>]

Item(text) == [present |-> TRUE, text |-> text]

\* Collections an earlier session can have saved, newest first.
StoredCollections ==
  { <<>>,
    << Expense(1, "5", "d", "n") >>,
    << Expense(2, "7", "d", "n"), Expense(1, "5", "d", "n") >> }

\* A text cut short before its last token, as an interrupted or edited write
\* leaves it: never valid JSON.
Truncated(text) == SubSeq(text, 1, Len(text) - 1)

\* The contents of localStorage at startup: no item, the empty string, a
\* corrupted text, JSON that is no array, an array with a null element, an
\* array whose expense has an empty amount, and a saved collection.
BootContents ==
  { [kind |-> "absent", coll |-> <<>>, item |-> Absent],
    [kind |-> "emptyField", coll |-> << Expense(2, "", "d", "n") >>,
     item |-> Item(Stringify(JSArray(<< Expense(2, "", "d", "n") >>)))],
    [kind |-> "empty", coll |-> <<>>, item |-> Item(<<>>)],
    [kind |-> "notArray", coll |-> <<>>, item |-> Item(Stringify(JSNull))],
    [kind |-> "notArray", coll |-> <<>>, item |-> Item(Stringify(JSNumber(5)))] }
  \cup { [kind |-> "corrupted", coll |-> c,
          item |-> Item(Truncated(Stringify(JSArray(c))))] : c \in StoredCollections }
  \cup { [kind |-> "badElement", coll |-> c,
          item |-> Item(Stringify(JSArray(Append(c, JSNull))))] : c \in StoredCollections }
  \cup { [kind |-> "collection", coll |-> c,
          item |-> Item(Stringify(JSArray(c)))] : c \in StoredCollections }

RECURSIVE MaxId(_)
MaxId(items) ==
  IF items = <<>> THEN 0
  ELSE LET m == MaxId(Tail(items))
       IN IF Head(items).id > m THEN Head(items).id ELSE m

\* The state after App's first render is committed: the three cells hold
\* their initial values, and the session starts after every stored record
\* was created.
Init ==
  /\ expenses = EmptyArray
  /\ formData = INITIAL_FORM_STATE
  /\ editingId = null
  /\ rendered = EmptyArray
  /\ scheduled = FALSE
  /\ \E boot \in BootContents :
       /\ storage = boot.item
       /\ now = MaxId(boot.coll) + 1
  /\ pc = "load"
  /\ lastWrite = "none"
  /\ failed = 0
  /\ last = [op |-> "mount", outcome |-> "rendered", arg |-> null]

\* ---------------------------------------------------------------- effects

\* The load effect without its try/catch: a SyntaxError of JSON.parse
\* leaves the effect and unmounts the component.
LoadEffectUncaught ==
  /\ pc = "load"
  /\ \E readOk \in BOOLEAN :
       LET truthy == storage.present /\ storage.text # <<>>
           parsed == JSONParse(storage.text)
       IN IF ~readOk
          THEN /\ last' = [op |-> "load", outcome |-> "readError", arg |-> null]
               /\ pc' = "save"
               /\ UNCHANGED << expenses, scheduled >>
          ELSE IF ~truthy
          THEN /\ last' = [op |-> "load", outcome |-> "nothing", arg |-> null]
               /\ pc' = "save"
               /\ UNCHANGED << expenses, scheduled >>
          ELSE IF ~parsed.ok
          THEN /\ last' = [op |-> "load", outcome |-> "parseError", arg |-> null]
               /\ pc' = "crashed"
               /\ UNCHANGED << expenses, scheduled >>
          ELSE /\ expenses' = parsed.v
               /\ scheduled' = TRUE
               /\ pc' = "save"
               /\ last' = [op |-> "load", outcome |-> "set", arg |-> null]
  /\ UNCHANGED << formData, editingId, rendered, storage, now, lastWrite, failed >>

\* The load effect, once after mount. getItem may throw (storage disabled);
\* JSON.parse throws on a text that is no JSON; both are caught and logged.
LoadEffect ==
  /\ pc = "load"
  /\ \E readOk \in BOOLEAN :
       LET savedExpenses == storage
           truthy == savedExpenses.present /\ savedExpenses.text # <<>>
           parsed == JSONParse(savedExpenses.text)
       IN IF ~readOk
          THEN /\ last' = [op |-> "load", outcome |-> "readError", arg |-> null]
               /\ UNCHANGED << expenses, scheduled >>
          ELSE IF ~truthy
          THEN /\ last' = [op |-> "load", outcome |-> "nothing", arg |-> null]
               /\ UNCHANGED << expenses, scheduled >>
          ELSE IF ~parsed.ok
          THEN /\ last' = [op |-> "load", outcome |-> "parseError", arg |-> null]
               /\ UNCHANGED << expenses, scheduled >>
          ELSE /\ expenses' = parsed.v
               /\ scheduled' = TRUE
               /\ last' = [op |-> "load", outcome |-> "set", arg |-> null]
  /\ pc' = "save"
  /\ UNCHANGED << formData, editingId, rendered, storage, now, lastWrite, failed >>

\* The save effect with a stale closure (no dependency on expenses): it
\* writes the expenses of the first render.
SaveEffectStaleClosure ==
  /\ pc = "save"
  /\ \E writeOk \in BOOLEAN :
       IF writeOk
       THEN /\ storage' = Item(Stringify(EmptyArray))
            /\ lastWrite' = "ok"
            /\ UNCHANGED failed
       ELSE /\ failed < MaxFailedWrites
            /\ storage' = storage
            /\ lastWrite' = "failed"
            /\ failed' = failed + 1
  /\ pc' = IF scheduled THEN "render" ELSE "idle"
  /\ UNCHANGED << expenses, formData, editingId, rendered, scheduled, now, last >>

\* The save effect with a retry: a write that throws is attempted again.
SaveEffectRetrying ==
  /\ pc = "save"
  /\ \E writeOk \in BOOLEAN :
       IF writeOk
       THEN /\ storage' = Item(Stringify(rendered))
            /\ lastWrite' = "ok"
            /\ pc' = IF scheduled THEN "render" ELSE "idle"
            /\ UNCHANGED failed
       ELSE /\ failed < MaxFailedWrites
            /\ storage' = storage
            /\ lastWrite' = "failed"
            /\ pc' = "save"
            /\ failed' = failed + 1
  /\ UNCHANGED << expenses, formData, editingId, rendered, scheduled, now, last >>

\* The save effect, after mount and after every render whose expenses
\* changed: it writes the expenses of the render it belongs to. setItem may
\* throw (quota, storage disabled); that is caught and logged.
SaveEffect ==
  /\ pc = "save"
  /\ \E writeOk \in BOOLEAN :
       IF writeOk
       THEN /\ storage' = Item(Stringify(rendered))
            /\ lastWrite' = "ok"
            /\ UNCHANGED failed
       ELSE /\ failed < MaxFailedWrites
            /\ storage' = storage
            /\ lastWrite' = "failed"
            /\ failed' = failed + 1
  /\ pc' = IF scheduled THEN "render" ELSE "idle"
  /\ UNCHANGED << expenses, formData, editingId, rendered, scheduled, now, last >>

\* App's render reads expenses.length and maps over expenses, reading
\* expense.id of each element: it throws on a value that is no array and on
\* a null element.
RenderThrows(v) ==
  IF IsArray(v)
  THEN \E i \in 1..Len(v.items) : v.items[i].ty = "null"
  ELSE TRUE

\* The render with a save effect that does not depend on expenses: nothing
\* is written after it.
RenderWithoutSave ==
  /\ pc = "render"
  /\ scheduled' = FALSE
  /\ IF RenderThrows(expenses)
     THEN /\ pc' = "crashed"
          /\ UNCHANGED rendered
     ELSE /\ pc' = "idle"
          /\ rendered' = expenses
  /\ UNCHANGED << expenses, formData, editingId, storage, now, lastWrite, failed, last >>

\* The render a setExpenses call schedules. A render that throws unmounts
\* the component; a committed one runs the save effect, its dependency
\* having changed.
Render ==
  /\ pc = "render"
  /\ scheduled' = FALSE
  /\ IF RenderThrows(expenses)
     THEN /\ pc' = "crashed"
          /\ UNCHANGED rendered
     ELSE /\ pc' = "save"
          /\ rendered' = expenses
  /\ UNCHANGED << expenses, formData, editingId, storage, now, lastWrite, failed, last >>

\* --------------------------------------------------------------- handlers
\* A handler runs between renders (pc = "idle"), so the expenses its closure
\* reads are those of the last committed render.

\* handleInputChange: one field of the form takes the typed value.
HandleInputChange ==
  /\ pc = "idle"
  /\ \E name \in {"amount", "date", "note"} :
       \E value \in FieldValues(name) :
         formData' = [formData EXCEPT ![name] = value]
  /\ last' = [op |-> "input", outcome |-> "changed", arg |-> null]
  /\ UNCHANGED << expenses, editingId, rendered, scheduled, storage, now, pc,
                  lastWrite, failed >>

\* The validation checking the amount alone.
InvalidAmountOnly(fd) == fd.amount = ""

\* !formData.amount || !formData.date || !formData.note: the empty string is
\* the one falsy string.
Invalid(fd) == fd.amount = "" \/ fd.date = "" \/ fd.note = ""

\* The update that moves the edited expense to the front.
UpdatedExpensesToFront(items, id, fd) ==
  [i \in 1..Len(SelectSeq(items, LAMBDA e : e.id = id)) |->
     [SelectSeq(items, LAMBDA e : e.id = id)[i]
        EXCEPT !.amount = fd.amount, !.date = fd.date, !.note = fd.note]]
  \o SelectSeq(items, LAMBDA e : e.id # id)

\* expenses.map(e => e.id === editingId ? { ...e, ...formData } : e)
UpdatedExpenses(items, id, fd) ==
  [i \in 1..Len(items) |->
     IF items[i].id = id
     THEN [items[i] EXCEPT !.amount = fd.amount, !.date = fd.date, !.note = fd.note]
     ELSE items[i]]

\* { id: Date.now(), ...formData }
NewExpense(t, fd) == Expense(t, fd.amount, fd.date, fd.note)

\* The new expense put last: [...expenses, newExpense].
WithNewExpenseLast(e, items) == items \o << e >>

\* [newExpense, ...expenses]
WithNewExpense(e, items) == << e >> \o items

\* resetForm without its setFormData call: the form keeps what it holds.
ResetFormDataStale == formData

\* resetForm's two assignments, as the values the cells take.
ResetFormData == INITIAL_FORM_STATE

ResetEditingId == null

\* handleFormSubmit. Date.now() reads the wall clock, which has not gone back
\* since its last reading and may not have advanced.
HandleFormSubmit ==
  /\ pc = "idle"
  /\ IF Invalid(formData)
     THEN /\ last' = [op |-> "submit", outcome |-> "alert", arg |-> null]
          /\ UNCHANGED << expenses, formData, editingId, scheduled, now, pc >>
     ELSE /\ IF editingId # null
             THEN /\ expenses' = JSArray(UpdatedExpenses(rendered.items, editingId, formData))
                  /\ last' = [op |-> "submit", outcome |-> "updated", arg |-> null]
                  /\ UNCHANGED now
             ELSE /\ Len(rendered.items) < MaxLen
                  /\ \E t \in now..MaxTime :
                       /\ now' = t
                       /\ expenses' = JSArray(WithNewExpense(NewExpense(t, formData),
                                                             rendered.items))
                       /\ last' = [op |-> "submit", outcome |-> "added", arg |-> null]
          /\ formData' = ResetFormData
          /\ editingId' = ResetEditingId
          /\ scheduled' = TRUE
          /\ pc' = "render"
  /\ UNCHANGED << rendered, storage, lastWrite, failed >>

\* handleEditClick taking the expense out of the list while it is edited.
HandleEditClickRemoving ==
  /\ pc = "idle"
  /\ \E i \in 1..Len(rendered.items) :
       LET expense == rendered.items[i]
       IN /\ editingId' = expense.id
          /\ formData' = [amount |-> expense.amount, date |-> expense.date,
                          note |-> expense.note]
          /\ expenses' = JSArray(SelectSeq(rendered.items,
                                           LAMBDA e : e.id # expense.id))
          /\ last' = [op |-> "edit", outcome |-> "editing", arg |-> null]
  /\ scheduled' = TRUE
  /\ pc' = "render"
  /\ UNCHANGED << rendered, storage, now, lastWrite, failed >>

\* handleEditClick(expense), from the Edit button of a rendered expense.
HandleEditClick ==
  /\ pc = "idle"
  /\ \E i \in 1..Len(rendered.items) :
       LET expense == rendered.items[i]
       IN /\ editingId' = expense.id
          /\ formData' = [amount |-> expense.amount, date |-> expense.date,
                          note |-> expense.note]
          /\ last' = [op |-> "edit", outcome |-> "editing", arg |-> null]
  /\ UNCHANGED << expenses, rendered, scheduled, storage, now, pc, lastWrite, failed >>

\* The filter with its test inverted: expenses.filter(e => e.id === id).
FilteredExpensesInverted(items, id) == SelectSeq(items, LAMBDA e : e.id = id)

\* expenses.filter(e => e.id !== id)
FilteredExpenses(items, id) == SelectSeq(items, LAMBDA e : e.id # id)

\* handleDeleteClick calling resetForm after the delete.
HandleDeleteClickResetting ==
  /\ pc = "idle"
  /\ \E id \in 1..MaxTime :
       \E confirmed \in BOOLEAN :
         IF confirmed
         THEN /\ expenses' = JSArray(FilteredExpenses(rendered.items, id))
              /\ editingId' = ResetEditingId
              /\ formData' = ResetFormData
              /\ scheduled' = TRUE
              /\ pc' = "render"
              /\ last' = [op |-> "delete", outcome |-> "filtered", arg |-> id]
         ELSE /\ last' = [op |-> "delete", outcome |-> "declined", arg |-> null]
              /\ UNCHANGED << expenses, editingId, formData, scheduled, pc >>
  /\ UNCHANGED << rendered, storage, now, lastWrite, failed >>

\* handleDeleteClick(id). The rendered Delete buttons pass the ids of the
\* rendered expenses; the handler itself takes any id, and an id that no
\* expense has is the case of the store's Delete(id) for an absent id. The
\* user may decline window.confirm. Nothing is assigned to editingId.
HandleDeleteClick ==
  /\ pc = "idle"
  /\ \E id \in 1..MaxTime :
       \E confirmed \in BOOLEAN :
         IF confirmed
         THEN /\ expenses' = JSArray(FilteredExpenses(rendered.items, id))
              /\ UNCHANGED editingId
              /\ scheduled' = TRUE
              /\ pc' = "render"
              /\ last' = [op |-> "delete", outcome |-> "filtered", arg |-> id]
         ELSE /\ last' = [op |-> "delete", outcome |-> "declined", arg |-> null]
              /\ UNCHANGED << expenses, editingId, scheduled, pc >>
  /\ UNCHANGED << formData, rendered, storage, now, lastWrite, failed >>

\* resetForm, from the Cancel button, which is rendered while editing.
ResetForm ==
  /\ pc = "idle"
  /\ editingId # null
  /\ formData' = ResetFormData
  /\ editingId' = ResetEditingId
  /\ last' = [op |-> "cancel", outcome |-> "reset", arg |-> null]
  /\ UNCHANGED << expenses, rendered, scheduled, storage, now, pc, lastWrite, failed >>

Next ==
  \/ LoadEffect
  \/ SaveEffect
  \/ Render
  \/ HandleInputChange
  \/ HandleFormSubmit
  \/ HandleEditClick
  \/ HandleDeleteClick
  \/ ResetForm

Spec == Init /\ [][Next]_vars

\* ----------------------------------------------------------------- claims

\* The collection holds expense objects only.
IsCollection(v) ==
  IsArray(v) /\ \A i \in 1..Len(v.items) : IsExpense(v.items[i])

\* Some expense of the collection has the id.
HasId(v, id) ==
  IsCollection(v) /\ \E i \in 1..Len(v.items) : v.items[i].id = id

\* The form holds a non-empty amount, date and note.
DraftFilled == formData.amount # "" /\ formData.date # "" /\ formData.note # ""

\* A step of handleFormSubmit: handlers run at pc = "idle" and each records
\* itself in last.
SubmitStep == pc = "idle" /\ last'.op = "submit"

DeleteStep == pc = "idle" /\ last'.op = "delete" /\ last'.outcome = "filtered"

\* C1: in every reachable state no two expenses of the collection share an
\* id (the id an add-mode submit gives differs from every id present).
C1_UniqueIds ==
  IsCollection(expenses) =>
    \A i, j \in 1..Len(expenses.items) :
      i # j => expenses.items[i].id # expenses.items[j].id

\* C2: in every reachable state editingId is null or the id of an expense
\* present in the collection.
C2_EditSessionPresent ==
  editingId = null \/ HasId(expenses, editingId)

\* C3: an add-mode submit of a filled form puts one new expense, with the
\* clock's reading as id and the form's three fields, in front of the
\* previous expenses, which keep their values and order.
C3_AddPrepends ==
  [][ (SubmitStep /\ editingId = null /\ DraftFilled) =>
        /\ Len(expenses'.items) = Len(expenses.items) + 1
        /\ Head(expenses'.items) =
             Expense(now', formData.amount, formData.date, formData.note)
        /\ Tail(expenses'.items) = expenses.items ]_vars

\* C3 witness: an add-mode submit has put a new expense in front of an
\* earlier one; the render of the new collection is next.
C3_Witness ==
  /\ pc = "render"
  /\ last.op = "submit" /\ last.outcome = "added"
  /\ Len(expenses.items) = 2
  /\ Tail(expenses.items) = rendered.items

\* C4: an edit-mode submit of a filled form replaces the amount, date and
\* note of the one expense with id editingId, at its position, and changes
\* nothing else of the collection.
C4_EditInPlace ==
  [][ (SubmitStep /\ editingId # null /\ DraftFilled) =>
        \E i \in 1..Len(expenses.items) :
          /\ expenses.items[i].id = editingId
          /\ expenses'.items =
               [expenses.items EXCEPT
                  ![i] = Expense(editingId, formData.amount, formData.date,
                                 formData.note)] ]_vars

\* C5: a submit with an empty amount, date or note alerts and changes neither
\* the collection, editingId, the form nor localStorage, and schedules no
\* render and so no save.
C5_InvalidSubmitNoChange ==
  [][ (SubmitStep /\ ~DraftFilled) =>
        /\ last'.outcome = "alert"
        /\ UNCHANGED << expenses, editingId, formData, storage >>
        /\ pc' = "idle" /\ ~scheduled' ]_vars

\* C5 witness: a submit in edit mode with an amount but no note has alerted
\* and left the session open.
C5_Witness ==
  /\ pc = "idle"
  /\ last.op = "submit" /\ last.outcome = "alert"
  /\ editingId # null
  /\ formData.amount # "" /\ formData.note = ""

\* C6: whenever no render or save is pending and the last write succeeded,
\* localStorage holds the serialization of the in-memory collection.
C6_StoredIsCurrent ==
  (pc = "idle" /\ lastWrite = "ok") => storage = Item(Stringify(expenses))

\* C6 witness: after an edit-mode submit changed a collection of two, the
\* save has run and succeeded.
C6_Witness ==
  /\ pc = "idle" /\ lastWrite = "ok"
  /\ last.op = "submit" /\ last.outcome = "updated"
  /\ Len(expenses.items) = 2
  /\ storage = Item(Stringify(expenses))

\* C7: a save whose write throws leaves the collection, editingId, the form
\* and localStorage as they were, is not run again for the same render, and
\* leaves every handler enabled once the component is idle (the submit
\* within MaxLen and MaxTime, the bounds of the exploration).
C7_FailedWriteKeepsState ==
  /\ [][ (pc = "save" /\ failed' # failed) =>
           /\ UNCHANGED << expenses, editingId, formData, storage >>
           /\ pc' = (IF scheduled THEN "render" ELSE "idle") ]_vars
  /\ [](pc = "idle" /\ lastWrite = "failed" =>
           /\ ENABLED HandleInputChange
           /\ ENABLED HandleDeleteClick
           /\ Len(expenses.items) > 0 => ENABLED HandleEditClick
           /\ (Len(expenses.items) < MaxLen /\ now <= MaxTime)
                => ENABLED HandleFormSubmit)

\* C7 witness: the write after an add-mode submit threw; the new expense is
\* in memory and not in localStorage.
C7_Witness ==
  /\ pc = "idle" /\ lastWrite = "failed"
  /\ last.op = "submit" /\ last.outcome = "added"
  /\ Len(expenses.items) > 0
  /\ storage # Item(Stringify(expenses))

\* The item is missing, empty, or a text cut short.
Unloadable(item) ==
  \/ ~item.present
  \/ item.text = <<>>
  \/ \E c \in StoredCollections : item.text = Truncated(Stringify(JSArray(c)))

\* C8: the load effect returns normally; with a missing, unreadable or
\* malformed item it leaves the collection empty, and with a stored
\* collection that it read it sets exactly that collection.
C8_Load ==
  [][ pc = "load" =>
        /\ pc' = "save"
        /\ (Unloadable(storage) \/ last'.outcome = "readError")
             => expenses' = EmptyArray
        /\ \A c \in StoredCollections :
             (storage = Item(Stringify(JSArray(c))) /\ last'.outcome # "readError")
               => expenses' = JSArray(c) ]_vars

\* C8 witness: the load effect has set a stored collection of two.
C8_Witness ==
  /\ pc = "save" /\ last.op = "load" /\ last.outcome = "set"
  /\ IsCollection(expenses) /\ Len(expenses.items) = 2
  /\ storage = Item(Stringify(expenses))

\* C8 witness of the failing side: the load effect caught a SyntaxError.
C8_WitnessMalformed ==
  /\ pc = "save" /\ last.op = "load" /\ last.outcome = "parseError"
  /\ expenses = EmptyArray

\* C9: no render throws, and the collection is always an array of expense
\* objects.
C9_NoCrash ==
  pc # "crashed" /\ IsCollection(expenses)

\* C10: a confirmed delete of an id that no expense has leaves the
\* collection, editingId and the form unchanged and returns normally.
C10_DeleteAbsent ==
  [][ (DeleteStep /\ ~HasId(expenses, last'.arg)) =>
        /\ UNCHANGED << expenses, editingId, formData >>
        /\ pc' = "render" ]_vars

\* C10 witness: during an edit session, a delete of an absent id has left a
\* non-empty collection as it was.
C10_Witness ==
  /\ pc = "render"
  /\ last.op = "delete" /\ last.outcome = "filtered"
  /\ Len(expenses.items) > 0
  /\ ~HasId(expenses, last.arg)
  /\ expenses = rendered
  /\ editingId # null

\* A step of handleEditClick, and one of resetForm from the Cancel button.
EditStep == pc = "idle" /\ last'.op = "edit"

CancelStep == pc = "idle" /\ last'.op = "cancel"

\* C11 as stated: editingId changes only from null to an id by
\* handleEditClick, and from an id to null by Cancel or a successful submit.
C11_ListedTransitionsOnly ==
  [][ editingId' # editingId =>
        \/ editingId = null /\ EditStep
        \/ editingId' = null /\ (CancelStep \/ (SubmitStep /\ DraftFilled)) ]_vars

\* C11 amended: editingId changes only to the id of a present expense by
\* handleEditClick, from null or from another id, and from an id to null by
\* Cancel or a successful submit; no delete, failed submit, input, render or
\* effect changes it.
C11_SessionTransitions ==
  [][ editingId' # editingId =>
        \/ EditStep /\ HasId(expenses, editingId')
        \/ editingId' = null /\ (CancelStep \/ (SubmitStep /\ DraftFilled)) ]_vars

\* C11 witness: handleEditClick has opened a session on the older of two
\* expenses and copied its fields into the form.
C11_Witness ==
  /\ pc = "idle" /\ last.op = "edit"
  /\ Len(expenses.items) = 2
  /\ expenses.items[1].id # expenses.items[2].id
  /\ editingId = expenses.items[2].id
  /\ formData.amount = expenses.items[2].amount

\* C12: a successful submit, in either mode, and Cancel both leave editingId
\* null and the form empty, which is the state resetForm's assignments give
\* again when applied to it; Cancel leaves the collection unchanged.
C12_SubmitResetsLikeCancel ==
  [][ ((SubmitStep /\ DraftFilled) \/ CancelStep) =>
        /\ editingId' = null
        /\ formData' = [amount |-> "", date |-> "", note |-> ""]
        /\ editingId' = ResetEditingId /\ formData' = ResetFormData
        /\ CancelStep => UNCHANGED expenses ]_vars

\* C12 witness: an edit-mode submit has changed the collection and reset the
\* session and the form.
C12_Witness ==
  /\ pc = "render"
  /\ last.op = "submit" /\ last.outcome = "updated"
  /\ expenses # rendered
  /\ editingId = null
  /\ formData = [amount |-> "", date |-> "", note |-> ""]

\* C13: whenever the component is idle and the last write succeeded, the
\* stored item is one the load effect parses (present, non-empty), and
\* parsing it gives the in-memory collection: same expenses, same order.
C13_RoundTrip ==
  (pc = "idle" /\ lastWrite = "ok") =>
    /\ storage.present /\ storage.text # <<>>
    /\ JSONParse(storage.text) = [ok |-> TRUE, v |-> expenses]

\* C13 witness: two expenses with different ids, the newer one just added,
\* are stored and parse back.
C13_Witness ==
  /\ pc = "idle" /\ lastWrite = "ok"
  /\ last.op = "submit" /\ last.outcome = "added"
  /\ Len(expenses.items) = 2
  /\ expenses.items[1].id # expenses.items[2].id
  /\ JSONParse(storage.text).v.items = expenses.items

\* C14: input, handleEditClick, Cancel and a failed submit leave the
\* collection and localStorage unchanged and schedule no render; the save
\* effect leaves the collection unchanged; the collection changes only in
\* the load effect, a successful submit or a confirmed delete.
C14_OnlySubmitAndDeleteMutate ==
  [][ /\ (pc = "idle" /\ (\/ last'.op \in {"input", "edit", "cancel"}
                          \/ last'.op = "submit" /\ ~DraftFilled)) =>
           /\ UNCHANGED << expenses, storage >>
           /\ pc' = "idle" /\ ~scheduled'
      /\ pc = "save" => UNCHANGED expenses
      /\ expenses' # expenses =>
           (pc = "load" \/ (SubmitStep /\ DraftFilled) \/ DeleteStep) ]_vars

\* C14 witness: Cancel has closed a session over two stored expenses.
C14_Witness ==
  /\ pc = "idle" /\ last.op = "cancel"
  /\ Len(expenses.items) = 2
  /\ storage = Item(Stringify(expenses))

\* C15: every expense of the collection has a non-empty amount, date and
\* note.
C15_FieldsNonEmpty ==
  IsCollection(expenses) =>
    \A i \in 1..Len(expenses.items) :
      /\ expenses.items[i].amount # ""
      /\ expenses.items[i].date # ""
      /\ expenses.items[i].note # ""

\* C16: a confirmed delete of an id that some expense has removes exactly
\* one expense, the one with that id, and keeps the others in their order.
C16_DeleteRemovesOne ==
  [][ (DeleteStep /\ HasId(expenses, last'.arg)) =>
        \E i \in 1..Len(expenses.items) :
          /\ expenses.items[i].id = last'.arg
          /\ expenses'.items =
               SubSeq(expenses.items, 1, i - 1)
                 \o SubSeq(expenses.items, i + 1, Len(expenses.items)) ]_vars

C18_StartupKeepsStored ==
  (pc = "idle" /\ last.op = "load" /\ last.outcome = "set") =>
    storage = Item(Stringify(expenses))

\* C19: after a submit of a filled form, some expense of the collection
\* carries the form's amount, date and note.
C19_DraftKept ==
  [][ (SubmitStep /\ DraftFilled) =>
        \E i \in 1..Len(expenses'.items) :
          /\ expenses'.items[i].amount = formData.amount
          /\ expenses'.items[i].date = formData.date
          /\ expenses'.items[i].note = formData.note ]_vars

\* C20: after a load that failed on a malformed item, and until a handler
\* runs, no step changes localStorage.
C20_FailedLoadKeepsStorage ==
  [][ (last.op = "load" /\ last.outcome = "parseError" /\ last' = last) =>
        storage' = storage ]_vars

====
